---- MODULE Spec2Model ----
(***************************************************************************)
(* A model of the Sudoku solver of solver.py / sudosolver.py: the grid,   *)
(* the partition into rows, columns and boxes, the peer set, the          *)
(* recursive backtracking search (one action per step of solve, with an   *)
(* explicit call stack), the checkers is_solved and is_valid_puzzle, the  *)
(* grid file format (read_grid / write_grid) and the GUI host run().      *)
(***************************************************************************)
EXTENDS Integers, Sequences, FiniteSets, TLC

(***************************************************************************)
(* Sizes.                                                                  *)
(***************************************************************************)
\* len(grid): the grid width.  The GUI builds a grid of width
\* DEFAULT_GRID_WIDTH_CELLS = 9; the engine takes any perfect square, and
\* the model instantiates it at 4, the smallest width with proper boxes.
N == 4

EMPTY_CELL_VALUE == 0

\* Number of cells an initial grid may differ in from one of the Puzzles.
MaxEdits == 1

\* Number of top-level calls of solve on the same grid.
MaxCalls == 2

\* Worker threads the GUI may spawn.
MaxWorkers == 2

Idx == 0 .. (N - 1)

Threads == 1 .. MaxWorkers

\* len(grid)
Width(g) == Cardinality(DOMAIN g)

\* A grid from its rows written as a tuple of tuples.
MkGrid(rs) == [y \in 0 .. (Len(rs) - 1) |-> [x \in 0 .. (Len(rs) - 1) |-> rs[y + 1][x + 1]]]

\* empty_grid(width)
empty_grid(width) == [y \in 0 .. (width - 1) |-> [x \in 0 .. (width - 1) |-> 0]]

(***************************************************************************)
(* PEERS                                                                   *)
(***************************************************************************)
\* int(math.sqrt(n))
IntSqrt(n) == CHOOSE b \in 0 .. n : b * b <= n /\ (b + 1) * (b + 1) > n

get_bound_box(y, x, grid_size) ==
    LET box_width == IntSqrt(grid_size)
    IN  <<y - (y % box_width), x - (x % box_width), box_width>>

\* Mutant: the column pass left out.
get_peers_NoColumn(g, y0, x0) ==
    LET bb == get_bound_box(y0, x0, Width(g))
    IN  {g[y0][x] : x \in DOMAIN g[y0] \ {x0}}
        \cup {g[yx[1]][yx[2]] :
                yx \in {c \in (bb[1] .. (bb[1] + bb[3] - 1)) \X (bb[2] .. (bb[2] + bb[3] - 1)) :
                          c[1] # y0 /\ c[2] # x0}}

\* Mutant: the box pass left out.
get_peers_NoBox(g, y0, x0) ==
    {g[y0][x] : x \in DOMAIN g[y0] \ {x0}} \cup {g[y][x0] : y \in DOMAIN g \ {y0}}

get_peers(g, y0, x0) ==
    LET bb == get_bound_box(y0, x0, Width(g))
        top == bb[1]
        left == bb[2]
        box_size == bb[3]
    IN  {g[y0][x] : x \in DOMAIN g[y0] \ {x0}}
        \cup {g[y][x0] : y \in DOMAIN g \ {y0}}
        \cup {g[yx[1]][yx[2]] :
                yx \in {c \in (top .. (top + box_size - 1)) \X (left .. (left + box_size - 1)) :
                          c[1] # y0 /\ c[2] # x0}}

(***************************************************************************)
(* DIVISIONS: lists of groups, each group the list of its cells' values.   *)
(***************************************************************************)
rows(g) == [k \in 1 .. Width(g) |-> [j \in 1 .. Width(g) |-> g[k - 1][j - 1]]]

\* list(map(list, zip(*grid)))
cols(g) == [k \in 1 .. Width(g) |-> [j \in 1 .. Width(g) |-> g[j - 1][k - 1]]]

\* Mutant: the boxes taken to be the rows.
boxes_AsRows(g) == rows(g)

boxes(g) ==
    LET w == IntSqrt(Width(g))
        \* range(0, len(grid), w) has this many elements
        nb == (Width(g) + w - 1) \div w
    IN  [k \in 1 .. (nb * nb) |->
            LET y0 == ((k - 1) \div nb) * w
                x0 == ((k - 1) % nb) * w
            IN  [j \in 1 .. (w * w) |-> g[y0 + ((j - 1) \div w)][x0 + ((j - 1) % w)]]]

\* grid + cols(grid) + boxes(grid)
groups(g) == rows(g) \o cols(g) \o boxes(g)

(***************************************************************************)
(* CHECKERS                                                                *)
(***************************************************************************)
is_solved(g) ==
    LET all_digits == 1 .. Width(g)
        gs == groups(g)
    IN  \A k \in DOMAIN gs : {gs[k][j] : j \in DOMAIN gs[k]} = all_digits

\* Mutant: the empty cells are not left out of the group's digits.
is_valid_puzzle_CountsEmpty(g) ==
    LET gs == groups(g)
    IN  \A k \in DOMAIN gs : Len(gs[k]) = Cardinality({gs[k][j] : j \in DOMAIN gs[k]})

is_valid_puzzle(g) ==
    LET gs == groups(g)
    IN  \A k \in DOMAIN gs :
            LET digits_in_group == SelectSeq(gs[k], LAMBDA v : v # EMPTY_CELL_VALUE)
            IN  Len(digits_in_group)
                  = Cardinality({digits_in_group[j] : j \in DOMAIN digits_in_group})

(***************************************************************************)
(* State.                                                                  *)
(***************************************************************************)
VARIABLES
    grid,             \* the grid's cell values, grid[y][x]
    stack,            \* per thread: the frames of its nested solve invocations
    ret,              \* per thread: value the last solve invocation returned, or "none"
    ret_entry,        \* history: the grid as it was when that invocation was entered
    grid0,            \* history: per thread, the grid at its top-level call of solve
    written,          \* history: per thread, the cells solve wrote since that call
    calls,            \* top-level calls of solve made by the sequential caller
    wpc,              \* per thread: position of the GUI worker in start()
    disabled,         \* the buttons whose state is tk.DISABLED
    raw_grid,         \* run()'s raw_grid
    highlighted_cell, \* the global highlighted_cell, <<x, y>>, or NoCell
    events,           \* number of UI events handled so far
    io_pc,            \* file round trip: "write", "read", "done" or "off"
    io_grid,          \* the raw grid handed to write_grid
    content,          \* the file's content, a sequence of characters
    loaded,           \* what read_grid produced: <<"ok", raw grid>> or <<"IOError">> ...
    chk               \* what the checkers answered for grid, or <<>>

solver_vars == <<grid, stack, ret, ret_entry, grid0, written, calls>>
gui_vars == <<wpc, disabled, raw_grid, highlighted_cell, events>>
io_vars == <<io_pc, io_grid, content, loaded>>
vars == <<solver_vars, gui_vars, io_vars, chk>>

\* What no step of solve touches.
others == <<calls, gui_vars, io_vars, chk>>

NoCell == <<>>

\* The history variables' value before any call of solve.
NoGrid == <<>>

(***************************************************************************)
(* SOLVE: the recursion of solve() as a stack of frames.  A frame holds    *)
(* the arguments y0, x0, the loop variables y, x and digit, the peer_set   *)
(* computed once for its cell, and its position: "scan" (looking for its   *)
(* cell), "loop" (in the digit loop) or "call" (in the recursive call).    *)
(***************************************************************************)
NewFrame(y0, x0, g) ==
    [y0 |-> y0, x0 |-> x0, y |-> y0, x |-> x0, peer_set |-> {}, digit |-> 0,
     pc |-> "scan", entry |-> g]

Top(t) == stack[t][Len(stack[t])]

Pop(s) == SubSeq(s, 1, Len(s) - 1)

SetTop(t, f) == [stack EXCEPT ![t] = [@ EXCEPT ![Len(@)] = f]]

Running(t) == Len(stack[t]) > 0

\* The cells the two nested for loops visit, starting at the cursor.
ScanCells(y0, x0) ==
    {c \in Idx \X Idx : c[1] >= y0 /\ c[2] >= (IF c[1] = y0 THEN x0 ELSE 0)}

\* grid[y][x].get() == EMPTY_CELL_VALUE
IsEmptyCell(g, c) == g[c[1]][c[2]] = EMPTY_CELL_VALUE

RowMajor(c) == c[1] * N + c[2]

EmptyCellsFrom(g, y0, x0) == {c \in ScanCells(y0, x0) : IsEmptyCell(g, c)}

\* The first empty cell the loops reach (row-major order).
FirstEmpty(g, y0, x0) ==
    CHOOSE c \in EmptyCellsFrom(g, y0, x0) :
        \A d \in EmptyCellsFrom(g, y0, x0) : RowMajor(c) <= RowMajor(d)

\* Mutant: the peer test dropped.
IsCandidate_NoPeerTest(digit, peer_set) == TRUE

\* if digit not in peer_set
IsCandidate(digit, peer_set) == digit \notin peer_set

\* The digits range(1, len(grid) + 1) still has to yield, from `from` on, that pass the test.
CandidatesFrom(from, peer_set) == {d \in from .. N : IsCandidate(d, peer_set)}

\* Mutant: the digits are tried from the greatest down.
Least_Greatest(S) == CHOOSE d \in S : \A e \in S : d >= e

Least(S) == CHOOSE d \in S : \A e \in S : d <= e

\* grid[y][x].set(digit)
SetCell(g, y, x, digit) == [g EXCEPT ![y][x] = digit]

\* Mutant: the backtrack step does not reset the cell.
UndoCell_Missing(g, y, x) == g

\* Mutant: the backtrack step resets grid[x][y].
UndoCell_Transposed(g, y, x) == SetCell(g, x, y, EMPTY_CELL_VALUE)

\* grid[y][x].set(EMPTY_CELL_VALUE) of the backtrack step
UndoCell(g, y, x) == SetCell(g, y, x, EMPTY_CELL_VALUE)

\* Mutant: the digit loop skips a digit after a failed recursive call.
NextDigit_Skip(digit) == digit + 2

\* Mutant: the digit loop does not advance.
NextDigit_Stuck(digit) == digit

\* The for loop over the digits moves on after a failed recursive call.
NextDigit(digit) == digit + 1

\* Mutant: the recursive call starts its scan at the first cell again.
Cursor_FromStart(y, x) == <<0, 0>>

\* The cursor handed to the recursive call: solve(grid, y0=y, x0=x)
Cursor(y, x) == <<y, x>>

\* return v: the frame is popped, the caller finds v.
Return(t, v) ==
    /\ stack' = [stack EXCEPT ![t] = Pop(@)]
    /\ ret' = [ret EXCEPT ![t] = v]
    /\ ret_entry' = [ret_entry EXCEPT ![t] = Top(t).entry]

\* The scan reaches an empty cell: this level's cell; its peers are computed.
SolveFind(t) ==
    /\ Running(t) /\ Top(t).pc = "scan"
    /\ EmptyCellsFrom(grid, Top(t).y0, Top(t).x0) # {}
    /\ LET c == FirstEmpty(grid, Top(t).y0, Top(t).x0)
       IN  stack' = SetTop(t, [Top(t) EXCEPT !.y = c[1], !.x = c[2],
                                  !.peer_set = get_peers(grid, c[1], c[2]),
                                  !.digit = 1, !.pc = "loop"])
    /\ UNCHANGED <<grid, ret, ret_entry, grid0, written, others>>

\* The scan ends: no more empty cells, return True.
SolveFull(t) ==
    /\ Running(t) /\ Top(t).pc = "scan"
    /\ EmptyCellsFrom(grid, Top(t).y0, Top(t).x0) = {}
    /\ Return(t, "True")
    /\ UNCHANGED <<grid, grid0, written, others>>

\* The next digit that is not a peer's: set the cell and recurse from it.
SolveAssign(t) ==
    /\ Running(t) /\ Top(t).pc = "loop"
    /\ CandidatesFrom(Top(t).digit, Top(t).peer_set) # {}
    /\ LET f == Top(t)
           d == Least(CandidatesFrom(f.digit, f.peer_set))
           g == SetCell(grid, f.y, f.x, d)
           cur == Cursor(f.y, f.x)
       IN  /\ grid' = g
           /\ stack' = [stack EXCEPT ![t] =
                           Append([@ EXCEPT ![Len(@)] = [f EXCEPT !.digit = d, !.pc = "call"]],
                                  NewFrame(cur[1], cur[2], g))]
           /\ written' = [written EXCEPT ![t] = @ \cup {<<f.y, f.x>>}]
    /\ UNCHANGED <<ret, ret_entry, grid0, others>>

\* The digit loop is exhausted: no solution, backtrack.
SolveBacktrack(t) ==
    /\ Running(t) /\ Top(t).pc = "loop"
    /\ CandidatesFrom(Top(t).digit, Top(t).peer_set) = {}
    /\ grid' = UndoCell(grid, Top(t).y, Top(t).x)
    /\ written' = [written EXCEPT ![t] = @ \cup {<<Top(t).y, Top(t).x>>}]
    /\ Return(t, "False")
    /\ UNCHANGED <<grid0, others>>

\* The recursive call returned True: return True.
SolveSuccess(t) ==
    /\ Running(t) /\ Top(t).pc = "call" /\ ret[t] = "True"
    /\ Return(t, "True")
    /\ UNCHANGED <<grid, grid0, written, others>>

\* The recursive call returned False: on to the next digit.
SolveNextDigit(t) ==
    /\ Running(t) /\ Top(t).pc = "call" /\ ret[t] = "False"
    /\ stack' = SetTop(t, [Top(t) EXCEPT !.digit = NextDigit(@), !.pc = "loop"])
    /\ ret' = [ret EXCEPT ![t] = "none"]
    /\ UNCHANGED <<grid, ret_entry, grid0, written, others>>

(***************************************************************************)
(* The grids solve is called on: the puzzles below and every grid that     *)
(* differs from one of them in at most MaxEdits cells (values in 0 .. N).  *)
(***************************************************************************)
SolvedGrid == MkGrid(<< <<1, 2, 3, 4>>, <<3, 4, 1, 2>>, <<2, 1, 4, 3>>, <<4, 3, 2, 1>> >>)

\* Valid, without a completion: the cell (2, 3) has no candidate left.
DeadEndGrid == MkGrid(<< <<0, 0, 0, 0>>, <<0, 0, 0, 4>>, <<1, 2, 3, 0>>, <<0, 0, 0, 0>> >>)

\* Valid, with exactly one completion.
UniqueGrid == MkGrid(<< <<0, 0, 3, 0>>, <<3, 0, 0, 2>>, <<0, 1, 0, 0>>, <<0, 0, 2, 0>> >>)

Puzzles == {empty_grid(N), SolvedGrid, DeadEndGrid, UniqueGrid}

\* The grids that differ from one of bases in at most k of the cells, by values of vals.
RECURSIVE EditsOn(_, _, _, _)
EditsOn(bases, k, cells, vals) ==
    IF k = 0 THEN bases
    ELSE LET prev == EditsOn(bases, k - 1, cells, vals)
         IN  prev \cup {SetCell(g, c[1], c[2], v) : g \in prev, c \in cells, v \in vals}

InitGrids == EditsOn(Puzzles, MaxEdits, Idx \X Idx, 0 .. N)

(***************************************************************************)
(* Idle values of the parts a specification does not exercise.             *)
(***************************************************************************)
GuiIdle ==
    /\ wpc = [t \in Threads |-> "idle"]
    /\ disabled = {}
    /\ raw_grid = empty_grid(N)
    /\ highlighted_cell = NoCell
    /\ events = 0

IoIdle ==
    /\ io_pc = "off"
    /\ io_grid = <<>>
    /\ content = <<>>
    /\ loaded = <<>>

SolverIdle(g) ==
    /\ grid = g
    /\ stack = [t \in Threads |-> <<>>]
    /\ ret = [t \in Threads |-> "none"]
    /\ ret_entry = [t \in Threads |-> NoGrid]
    /\ grid0 = [t \in Threads |-> NoGrid]
    /\ written = [t \in Threads |-> {}]
    /\ calls = 0

(***************************************************************************)
(* Spec: a sequential caller calls solve(grid) on a grid of InitGrids and, *)
(* when it returned True, calls it again on the result.                    *)
(***************************************************************************)
Init ==
    /\ grid \in InitGrids
    /\ stack = [t \in Threads |-> IF t = 1 THEN <<NewFrame(0, 0, grid)>> ELSE <<>>]
    /\ ret = [t \in Threads |-> "none"]
    /\ ret_entry = [t \in Threads |-> grid]
    /\ grid0 = [t \in Threads |-> grid]
    /\ written = [t \in Threads |-> {}]
    /\ calls = 1
    /\ GuiIdle
    /\ IoIdle
    /\ chk = <<>>

\* solve(grid) once more, on the grid the successful call left.
SolveAgain ==
    /\ ~Running(1) /\ ret[1] = "True" /\ calls < MaxCalls
    /\ stack' = [stack EXCEPT ![1] = <<NewFrame(0, 0, grid)>>]
    /\ ret' = [ret EXCEPT ![1] = "none"]
    /\ grid0' = [grid0 EXCEPT ![1] = grid]
    /\ written' = [written EXCEPT ![1] = {}]
    /\ calls' = calls + 1
    /\ UNCHANGED <<grid, ret_entry, gui_vars, io_vars, chk>>

Next ==
    \/ SolveFind(1)
    \/ SolveFull(1)
    \/ SolveAssign(1)
    \/ SolveBacktrack(1)
    \/ SolveSuccess(1)
    \/ SolveNextDigit(1)
    \/ SolveAgain

Spec == Init /\ [][Next]_vars

\* solve runs to completion: nothing suspends it.
FairSpec == Spec /\ WF_vars(Next)

(***************************************************************************)
(* The rules of the game, stated on cells (not through cols and boxes):    *)
(* every row, column and box holds each digit of 1 .. N exactly once.      *)
(* AllSolved is the set of all solved grids of width N.                    *)
(***************************************************************************)
RowUnit(n, y) == {<<y, x>> : x \in 0 .. (n - 1)}

ColUnit(n, x) == {<<y, x>> : y \in 0 .. (n - 1)}

BoxUnit(n, by, bx) ==
    LET w == IntSqrt(n)
    IN  {c \in (0 .. (n - 1)) \X (0 .. (n - 1)) : c[1] \div w = by /\ c[2] \div w = bx}

\* The n rows, n columns and n boxes of a grid of width n, as sets of cells.
Units(n) ==
    {RowUnit(n, y) : y \in 0 .. (n - 1)}
    \cup {ColUnit(n, x) : x \in 0 .. (n - 1)}
    \cup {BoxUnit(n, by, bx) : by, bx \in 0 .. (IntSqrt(n) - 1)}

\* The cells of u hold each digit of 1 .. n exactly once and nothing else.
IsPermutationOn(g, u) ==
    /\ Cardinality(u) = Width(g)
    /\ \A d \in 1 .. Width(g) : Cardinality({c \in u : g[c[1]][c[2]] = d}) = 1

\* Units, tabulated for the widths of the model.
UnitsOf == [n \in {N, 9} |-> Units(n)]

AllGroupsPermutations(g) == \A u \in UnitsOf[Width(g)] : IsPermutationOn(g, u)

\* No unit holds the same non-zero value in two different cells.
NoDuplicateDigit(g) ==
    \A u \in UnitsOf[Width(g)] : \A c, d \in u :
        (c # d /\ g[c[1]][c[2]] # 0) => g[c[1]][c[2]] # g[d[1]][d[2]]

RowPerms == {r \in [Idx -> 1 .. N] : \A a, b \in Idx : a # b => r[a] # r[b]}

\* Row r may follow the rows of s: no digit twice in a column or in a box.
FitsBelow(s, r) ==
    LET w == IntSqrt(N)
        y == Len(s)
    IN  \A k \in 1 .. Len(s), a, b \in Idx :
            ((a = b) \/ ((k - 1) \div w = y \div w /\ a \div w = b \div w)) => s[k][a] # r[b]

RECURSIVE FittingStacks(_)
FittingStacks(k) ==
    IF k = 0 THEN {<<>>}
    ELSE UNION {{Append(s, r) : r \in {q \in RowPerms : FitsBelow(s, q)}} : s \in FittingStacks(k - 1)}

AllSolved ==
    {g \in {[y \in Idx |-> s[y + 1]] : s \in FittingStacks(N)} : AllGroupsPermutations(g)}

\* The solved grids that agree with g on its non-empty cells.
Completions(g) ==
    {s \in AllSolved : \A y, x \in Idx : g[y][x] # EMPTY_CELL_VALUE => s[y][x] = g[y][x]}

(***************************************************************************)
(* CheckSpec: is_solved and is_valid_puzzle applied to grids of width 4    *)
(* and 9 whose cells hold any value of -1 .. width + 1.                    *)
(***************************************************************************)
\* Rows and columns are permutations, the boxes are not.
LatinGrid == MkGrid(<< <<1, 2, 3, 4>>, <<2, 3, 4, 1>>, <<3, 4, 1, 2>>, <<4, 1, 2, 3>> >>)

\* Rows and boxes are permutations, the columns are not.
ColDupGrid == MkGrid(<< <<1, 2, 3, 4>>, <<3, 4, 1, 2>>, <<1, 2, 3, 4>>, <<3, 4, 1, 2>> >>)

\* Columns and boxes are permutations, the rows are not.
RowDupGrid == MkGrid(<< <<1, 3, 1, 3>>, <<2, 4, 2, 4>>, <<3, 1, 3, 1>>, <<4, 2, 4, 2>> >>)

Solved9 ==
    MkGrid(<< <<5, 3, 4, 6, 7, 8, 9, 1, 2>>,
              <<6, 7, 2, 1, 9, 5, 3, 4, 8>>,
              <<1, 9, 8, 3, 4, 2, 5, 6, 7>>,
              <<8, 5, 9, 7, 6, 1, 4, 2, 3>>,
              <<4, 2, 6, 8, 5, 3, 7, 9, 1>>,
              <<7, 1, 3, 9, 2, 4, 8, 5, 6>>,
              <<9, 6, 1, 5, 3, 7, 2, 8, 4>>,
              <<2, 8, 7, 4, 1, 9, 6, 3, 5>>,
              <<3, 4, 5, 2, 8, 6, 1, 7, 9>> >>)

\* Two 5s in row 0 of a 9 x 9 grid, the rest empty.
TwoFives9 == SetCell(SetCell(empty_grid(9), 0, 0, 5), 0, 1, 5)

\* The cells of box 0: the cells of the wide grids that are varied.
FirstBoxCells(n) ==
    {c \in (0 .. (n - 1)) \X (0 .. (n - 1)) : c[1] < IntSqrt(n) /\ c[2] < IntSqrt(n)}

CheckGrids ==
    EditsOn({empty_grid(N), SolvedGrid, LatinGrid, ColDupGrid, RowDupGrid},
            MaxEdits, Idx \X Idx, -1 .. (N + 1))
    \cup EditsOn({Solved9, empty_grid(9), TwoFives9}, MaxEdits, FirstBoxCells(9), -1 .. 10)

NoAnswers == <<>>

CheckInit ==
    /\ \E g \in CheckGrids : SolverIdle(g)
    /\ GuiIdle
    /\ IoIdle
    /\ chk = NoAnswers

\* is_solved(grid)
CheckSolved ==
    /\ "is_solved" \notin DOMAIN chk
    /\ chk' = chk @@ ("is_solved" :> is_solved(grid))
    /\ UNCHANGED <<solver_vars, gui_vars, io_vars>>

\* is_valid_puzzle(grid)
CheckValid ==
    /\ "is_valid" \notin DOMAIN chk
    /\ chk' = chk @@ ("is_valid" :> is_valid_puzzle(grid))
    /\ UNCHANGED <<solver_vars, gui_vars, io_vars>>

CheckNext == CheckSolved \/ CheckValid

CheckSpec == CheckInit /\ [][CheckNext]_vars

\* C4: is_solved(grid) is true exactly when every row, column and box of the
\* grid (width 4 or 9, any integers in the cells) holds each digit of
\* 1 .. width exactly once.
C4_IsSolvedIffPermutations ==
    "is_solved" \in DOMAIN chk => (chk["is_solved"] <=> AllGroupsPermutations(grid))

\* is_solved answered True for a grid of width 9.
C4_Witness ==
    "is_solved" \in DOMAIN chk /\ chk["is_solved"] /\ Width(grid) = 9

\* C5: is_valid_puzzle(grid) is true exactly when no row, column or box holds
\* the same non-zero value in two cells (empty cells never count); with such a
\* duplicate is_valid and is_solved are both false; what is_solved accepts,
\* is_valid accepts.
C5_IsValidIffNoDuplicate ==
    /\ "is_valid" \in DOMAIN chk => (chk["is_valid"] <=> NoDuplicateDigit(grid))
    /\ DOMAIN chk = {"is_solved", "is_valid"} =>
          /\ chk["is_solved"] => chk["is_valid"]
          /\ ~NoDuplicateDigit(grid) => (~chk["is_valid"] /\ ~chk["is_solved"])

\* Both checkers answered False for the grid with two 5s in row 0.
C5_Witness ==
    /\ grid = TwoFives9 /\ DOMAIN chk = {"is_solved", "is_valid"}
    /\ ~chk["is_valid"] /\ ~chk["is_solved"]

(***************************************************************************)
(* PeerSpec: get_peers at every coordinate of a grid, then the digit test  *)
(* of solve on the set it returned.  The grids are those solve is called   *)
(* on (width 4), grids of width 9, and the grids of width 4, 9 and 16      *)
(* whose cells all hold different values, so that a value of the set tells *)
(* which cell it was read from.                                            *)
(***************************************************************************)
\* The grid of width n holding 1 .. n * n in row-major order.
NumberedGrid(n) == [y \in 0 .. (n - 1) |-> [x \in 0 .. (n - 1) |-> y * n + x + 1]]

PeerGrids ==
    InitGrids
    \cup {Solved9, TwoFives9, empty_grid(9)}
    \cup {NumberedGrid(n) : n \in {4, 9, 16}}

PeerInit ==
    /\ \E g \in PeerGrids : SolverIdle(g)
    /\ GuiIdle
    /\ IoIdle
    /\ chk = NoAnswers

\* peer_set = get_peers(grid, (y, x))
PeersOf ==
    /\ chk = NoAnswers
    /\ \E y, x \in DOMAIN grid :
          chk' = ("coords" :> <<y, x>>) @@ ("peer_set" :> get_peers(grid, y, x))
    /\ UNCHANGED <<solver_vars, gui_vars, io_vars>>

\* for digit in range(1, len(grid) + 1): if digit not in peer_set
TryDigits ==
    /\ DOMAIN chk = {"coords", "peer_set"}
    /\ chk' = chk @@ ("digits" :> {d \in 1 .. Width(grid) : IsCandidate(d, chk["peer_set"])})
    /\ UNCHANGED <<solver_vars, gui_vars, io_vars>>

PeerNext == PeersOf \/ TryDigits

PeerSpec == PeerInit /\ [][PeerNext]_vars

\* From the rules: the cells other than (y, x) in its row, its column or its box.
PeerCells(n, y, x) ==
    (RowUnit(n, y) \cup ColUnit(n, x) \cup BoxUnit(n, y \div IntSqrt(n), x \div IntSqrt(n)))
        \ {<<y, x>>}

\* The cells of the square get_bound_box gives for (y, x).
BoundBoxCells(n, y, x) ==
    LET bb == get_bound_box(y, x, n)
    IN  (bb[1] .. (bb[1] + bb[3] - 1)) \X (bb[2] .. (bb[2] + bb[3] - 1))

\* C12: get_peers(grid, (y, x)) is exactly the set of the values (0 included)
\* of the cells other than (y, x) in row y, column x or the box of (y, x); the
\* square of get_bound_box is that box, and its values are one of the groups
\* of boxes(grid); a digit of 1 .. N fails the test of solve exactly when a
\* peer cell holds it, whether or not 0 is in the set.
C12_PeerSetExact ==
    "peer_set" \in DOMAIN chk =>
        LET n == Width(grid)
            y == chk["coords"][1]
            x == chk["coords"][2]
            peer_cells == PeerCells(n, y, x)
        IN  /\ chk["peer_set"] = {grid[c[1]][c[2]] : c \in peer_cells}
            /\ BoundBoxCells(n, y, x) = BoxUnit(n, y \div IntSqrt(n), x \div IntSqrt(n))
            /\ LET box_list == boxes(grid)
               IN  \E k \in DOMAIN box_list :
                      /\ {box_list[k][j] : j \in DOMAIN box_list[k]}
                            = {grid[c[1]][c[2]] : c \in BoundBoxCells(n, y, x)}
                      /\ \E j \in DOMAIN box_list[k] : box_list[k][j] = grid[y][x]
            /\ "digits" \in DOMAIN chk =>
                  /\ chk["digits"] =
                        {d \in 1 .. n : \A c \in peer_cells : grid[c[1]][c[2]] # d}
                  /\ \A d \in 1 .. n :
                        IsCandidate(d, chk["peer_set"] \cup {0})
                            <=> IsCandidate(d, chk["peer_set"] \ {0})

\* The peers of cell (0, 2) of the grid of width 9 with two 5s in row 0 have
\* been computed: the set holds 0 and digits, and some digits pass the test.
C12_Witness ==
    /\ grid = TwoFives9 /\ DOMAIN chk = {"coords", "peer_set", "digits"}
    /\ chk["coords"] = <<0, 2>>
    /\ 0 \in chk["peer_set"] /\ chk["peer_set"] # {0} /\ chk["digits"] # {}

(***************************************************************************)
(* UTIL: the grid file format.  A file's content is a sequence of          *)
(* characters.  A Python value is written with its type: <<"int", 5>> is   *)
(* the integer 5 and <<"str", "5">> the string '5', so that a raw grid of  *)
(* integers and a raw grid of strings are different values.                *)
(***************************************************************************)
DigitChars == <<"0", "1", "2", "3", "4", "5", "6", "7", "8", "9">>

PyInt(i) == <<"int", i>>

PyStr(c) == <<"str", c>>

\* str(i) for an integer 0 <= i < 100, as a sequence of characters
Str(i) ==
    IF i < 10 THEN <<DigitChars[i + 1]>>
    ELSE <<DigitChars[(i \div 10) + 1], DigitChars[(i % 10) + 1]>>

\* c.isspace()
IsSpace(c) == c \in {" ", "\n", "\t"}

IsDigitChar(c) == \E i \in 1 .. 10 : DigitChars[i] = c

\* int(c) for a digit character
IntOfChar(c) == (CHOOSE i \in 1 .. 10 : DigitChars[i] = c) - 1

\* sep.join(parts), parts a sequence of character sequences
RECURSIVE Join(_, _)
Join(sep, parts) ==
    IF Len(parts) = 0 THEN <<>>
    ELSE IF Len(parts) = 1 THEN parts[1]
    ELSE parts[1] \o sep \o Join(sep, Tail(parts))

\* write_grid: the content written for a raw grid of integers
write_grid(g) ==
    Str(Len(g)) \o <<"\n">>
    \o Join(<<"\n">>, [y \in 1 .. Len(g) |->
                         Join(<<" ", " ">>, [x \in 1 .. Len(g[y]) |-> Str(g[y][x][2])])])

\* split_list, for max_size > 0: [lst[i:i + max_size] for i in range(0, len(lst), max_size)]
split_list(lst, max_size) ==
    [k \in 1 .. ((Len(lst) + max_size - 1) \div max_size) |->
        SubSeq(lst, (k - 1) * max_size + 1,
               IF k * max_size < Len(lst) THEN k * max_size ELSE Len(lst))]

\* len(flattened_grid) != width ** 2
SizeMismatch(cell_count, width) == cell_count # width * width

\* The loop over content[1:], here over chars[lo .. hi]: the cells collected,
\* or "IOError" at the first character that is neither white space nor a valid
\* digit.  (The range is halved to keep the evaluation shallow; the characters
\* are still taken from left to right.)
RECURSIVE ScanChars(_, _, _, _)
ScanChars(chars, lo, hi, valid_digits) ==
    IF lo > hi THEN <<"ok", <<>>>>
    ELSE IF lo = hi
    THEN LET c == chars[lo]
         IN  IF IsSpace(c) THEN <<"ok", <<>>>>
             ELSE IF c \in valid_digits THEN <<"ok", <<PyStr(c)>>>>
             ELSE <<"IOError">>
    ELSE LET mid == (lo + hi) \div 2
             left == ScanChars(chars, lo, mid, valid_digits)
         IN  IF left[1] # "ok" THEN left
             ELSE LET right == ScanChars(chars, mid + 1, hi, valid_digits)
                  IN  IF right[1] # "ok" THEN right
                      ELSE <<"ok", left[2] \o right[2]>>

\* read_grid: <<"ok", raw grid>>, or the exception raised
read_grid(cont) ==
    IF Len(cont) = 0 THEN <<"IndexError">>
    ELSE IF ~IsDigitChar(cont[1]) THEN <<"ValueError">>
    ELSE LET width == IntOfChar(cont[1])
             valid_digits == {Str(i)[1] : i \in 0 .. width}
             scanned == ScanChars(cont, 2, Len(cont), valid_digits)
         IN  IF scanned[1] # "ok" THEN scanned
             ELSE IF SizeMismatch(Len(scanned[2]), width) THEN <<"ValueError">>
             \* range(0, len(lst), 0): ValueError, range() arg 3 must not be zero
             ELSE IF width = 0 THEN <<"ValueError">>
             ELSE <<"ok", split_list(scanned[2], width)>>

(***************************************************************************)
(* IoSpec: write_grid followed by read_grid on raw grids of width 0 .. 9, *)
(* and read_grid on files of any content.                                  *)
(***************************************************************************)
\* Raw grids of width up to this are all tried.
MaxRawWidth == 1

\* Files of a width digit and up to this many further characters are all tried.
MaxBodyLen == 4

MaxFileWidth == 9

\* The raw grid of width w whose cells run through 0 .. w starting at k.
RampGrid(w, k) == [y \in 1 .. w |-> [x \in 1 .. w |-> PyInt(((y - 1) * w + (x - 1) + k) % (w + 1))]]

RawGrids ==
    {RampGrid(wk[1], wk[2]) :
        wk \in {p \in (0 .. MaxFileWidth) \X (0 .. MaxFileWidth) : p[2] <= p[1]}}
    \cup {g \in UNION {[1 .. w -> [1 .. w -> {PyInt(v) : v \in 0 .. w}]] : w \in 0 .. MaxRawWidth} : TRUE}

Alphabet == {"0", "1", "2", "9", "x", " ", "\n"}

\* A written file with the character at position i removed or replaced.
Perturbed(cont) ==
    {SubSeq(cont, 1, i - 1) \o SubSeq(cont, i + 1, Len(cont)) : i \in 1 .. Len(cont)}
    \cup {[cont EXCEPT ![i] = c] : i \in 1 .. Len(cont), c \in Alphabet}

IoInit ==
    /\ \/ /\ io_pc = "write"
          /\ io_grid \in RawGrids
          /\ content = <<>>
       \/ /\ io_pc = "load"
          /\ io_grid = <<>>
          /\ \/ \E w \in 0 .. MaxFileWidth : content \in Perturbed(write_grid(RampGrid(w, 0)))
             \/ \E w \in 0 .. IntSqrt(MaxBodyLen), l \in 0 .. MaxBodyLen :
                   \E body \in [1 .. l -> Alphabet] : content = <<DigitChars[w + 1]>> \o body
    /\ loaded = <<>>
    /\ SolverIdle(empty_grid(N))
    /\ GuiIdle
    /\ chk = NoAnswers

\* write_grid(io_grid, path)
WriteGrid ==
    /\ io_pc = "write"
    /\ content' = write_grid(io_grid)
    /\ io_pc' = "reread"
    /\ UNCHANGED <<io_grid, loaded, solver_vars, gui_vars, chk>>

\* read_grid(path) on the file just written
ReadBack ==
    /\ io_pc = "reread"
    /\ loaded' = read_grid(content)
    /\ io_pc' = "reloaded"
    /\ UNCHANGED <<io_grid, content, solver_vars, gui_vars, chk>>

\* read_grid(path) on a file as found
ReadGrid ==
    /\ io_pc = "load"
    /\ loaded' = read_grid(content)
    /\ io_pc' = "loaded"
    /\ UNCHANGED <<io_grid, content, solver_vars, gui_vars, chk>>

IoNext == WriteGrid \/ ReadBack \/ ReadGrid

IoSpec == IoInit /\ [][IoNext]_vars

\* C7 as stated: write_grid followed by read_grid gives back the raw grid
\* itself, the same rows of the same integer cells (stated here for the grids
\* that have a cell, widths 1 .. 9).
C7_RoundTripExact ==
    (io_pc = "reloaded" /\ Len(io_grid) > 0) => loaded = <<"ok", io_grid>>

\* What the round trip does give for widths 1 .. 9: the characters of the
\* cells' digits, row by row (int() of each is the original cell).
RoundTripAsText ==
    (io_pc = "reloaded" /\ Len(io_grid) > 0) =>
        /\ loaded[1] = "ok"
        /\ loaded[2] = [y \in 1 .. Len(io_grid) |->
                          [x \in 1 .. Len(io_grid) |-> PyStr(Str(io_grid[y][x][2])[1])]]

\* The file read starts with a width digit.
ReadOfWidthFile ==
    io_pc \in {"reloaded", "loaded"} /\ Len(content) > 0 /\ IsDigitChar(content[1])

FileWidth == IntOfChar(content[1])

\* The characters after the width digit that are not white space.
FileCells == SelectSeq(Tail(content), LAMBDA c : ~IsSpace(c))

\* Some character after the width digit is neither white space nor a digit of 0 .. N.
HasBadChar ==
    \E i \in DOMAIN FileCells :
        ~(IsDigitChar(FileCells[i]) /\ IntOfChar(FileCells[i]) <= FileWidth)

\* A result that is a grid of n rows of n cells.
IsSquareResult(r, n) ==
    /\ Len(r) = 2 /\ r[1] = "ok"
    /\ Len(r[2]) = n
    /\ \A y \in 1 .. n : Len(r[2][y]) = n

\* C8 as stated: reading a file that starts with the width digit N raises
\* IOError if a later non-blank character is not a digit of 0 .. N; otherwise
\* ValueError if the number of digits is not N * N; otherwise returns an
\* N x N grid.
C8_ReadOutcomes ==
    ReadOfWidthFile =>
        IF HasBadChar THEN loaded = <<"IOError">>
        ELSE IF Len(FileCells) # FileWidth * FileWidth THEN loaded = <<"ValueError">>
        ELSE IsSquareResult(loaded, FileWidth)

\* What read_grid does give: the outcomes as stated when the width digit is
\* 1 .. 9; for the width digit 0 a file with no bad character and no digit
\* raises ValueError (range() with a step of 0), and no grid is returned.
ReadOutcomesAsCoded ==
    ReadOfWidthFile =>
        IF HasBadChar THEN loaded = <<"IOError">>
        ELSE IF Len(FileCells) # FileWidth * FileWidth THEN loaded = <<"ValueError">>
        ELSE IF FileWidth = 0 THEN loaded = <<"ValueError">>
        ELSE IsSquareResult(loaded, FileWidth)

(***************************************************************************)
(* INTERFACE: run() of sudosolver.py.  The Tk main loop handles one UI     *)
(* event at a time; the Start button's command starts a thread on start(), *)
(* and the steps of that worker interleave with the handling of further    *)
(* events.  A worker is at "idle" (not started), "start" (started, about   *)
(* to disable the buttons), "check" (about to test is_valid_puzzle),       *)
(* "solve" (in solve), "error" (about to show the message box) or          *)
(* "enable" (about to re-enable the buttons).                              *)
(***************************************************************************)
\* UI events handled in one run of the window.
MaxEvents == 2

DEFAULT_CELL_WIDTH_PIXELS == 50

Buttons == {"load", "store", "start", "reset", "clear"}

\* dump_grid_values(grid)
dump_grid_values(g) == [y \in 1 .. N |-> [x \in 1 .. N |-> PyInt(g[y - 1][x - 1])]]

\* tk.IntVar: set() takes an integer or the text of one, get() gives the integer.
IntVarGet(v) == IF v[1] = "int" THEN v[2] ELSE IntOfChar(v[2])

\* for y, row in enumerate(grid): for x, cell in enumerate(row): cell.set(raw[y][x])
SetAll(raw) == [y \in Idx |-> [x \in Idx |-> IntVarGet(raw[y + 1][x + 1])]]

cell_at(pixel_x, pixel_y) ==
    <<pixel_x \div DEFAULT_CELL_WIDTH_PIXELS, pixel_y \div DEFAULT_CELL_WIDTH_PIXELS>>

get_next_cell(cell_x, cell_y, grid_width_cells) ==
    LET next_cell_x == (cell_x + 1) % grid_width_cells
    IN  <<next_cell_x, IF next_cell_x = 0 THEN (cell_y + 1) % grid_width_cells ELSE cell_y>>

get_prev_cell(cell_x, cell_y, grid_width_cells) ==
    LET prev_cell_x == (cell_x - 1) % grid_width_cells
    IN  <<prev_cell_x,
          IF prev_cell_x = grid_width_cells - 1 THEN (cell_y - 1) % grid_width_cells ELSE cell_y>>

\* The files the Load dialog is pointed at: two puzzles as write_grid stores
\* them, and a file with a character that is no digit of the width.
LoadFiles ==
    {write_grid(dump_grid_values(UniqueGrid)), write_grid(dump_grid_values(DeadEndGrid)),
     <<"4", "\n", "9">>}

\* The points of the canvas that are clicked.
ClickPoints == {<<10, 10>>, <<130, 60>>}

\* The keys that are pressed.
KeySyms == {"Up", "Down", "Left", "Right", "0", "2", "4", "space", "BackSpace", "Escape"}

\* A UI event is handled.
Event == events < MaxEvents /\ events' = events + 1

\* Solvable: the four cells of row 0 are left to fill.
TopRowGrid == MkGrid(<< <<0, 0, 0, 0>>, <<3, 4, 1, 2>>, <<2, 1, 4, 3>>, <<4, 3, 2, 1>> >>)

\* Valid, without a completion: once (0, 0) holds 1 the cell (0, 1) has no candidate.
StuckGrid == MkGrid(<< <<0, 0, 3, 2>>, <<3, 4, 1, 0>>, <<2, 1, 4, 3>>, <<4, 3, 2, 1>> >>)

GuiPuzzles == {TopRowGrid, StuckGrid}

\* The window run() has built, once a puzzle has been loaded into it (load():
\* the cells and raw_grid hold the puzzle) and, possibly, a cell clicked; no
\* worker has been started.
GuiInit ==
    /\ \E g \in GuiPuzzles :
          /\ SolverIdle(g)
          /\ raw_grid = [y \in 1 .. N |-> [x \in 1 .. N |-> PyStr(Str(g[y - 1][x - 1])[1])]]
    /\ wpc = [t \in Threads |-> "idle"]
    /\ disabled = {}
    /\ highlighted_cell \in {NoCell} \cup {cell_at(p[1], p[2]) : p \in ClickPoints}
    /\ events = 0
    /\ IoIdle
    /\ chk = NoAnswers

\* load(): the file is read and copied to raw_grid and to the cells; an
\* exception of read_grid ends the handler.
ClickLoad ==
    /\ "load" \notin disabled /\ Event
    /\ \E file \in LoadFiles :
          LET new_raw_grid == read_grid(file)
          IN  IF new_raw_grid[1] = "ok"
              THEN raw_grid' = new_raw_grid[2] /\ grid' = SetAll(new_raw_grid[2])
              ELSE UNCHANGED <<raw_grid, grid>>
    /\ UNCHANGED <<stack, ret, ret_entry, grid0, written, calls, wpc, disabled,
                   highlighted_cell, io_vars, chk>>

\* store(): the cells' values are written to a file.
ClickStore ==
    /\ "store" \notin disabled /\ Event
    /\ content' = write_grid(dump_grid_values(grid))
    /\ UNCHANGED <<solver_vars, wpc, disabled, raw_grid, highlighted_cell,
                   io_pc, io_grid, loaded, chk>>

\* The Start button's command: threading.Thread(target=start).start()
ClickStart ==
    /\ "start" \notin disabled /\ Event
    /\ \E t \in Threads :
          /\ wpc[t] = "idle" /\ \A u \in Threads : wpc[u] = "idle" => t <= u
          /\ wpc' = [wpc EXCEPT ![t] = "start"]
    /\ UNCHANGED <<solver_vars, disabled, raw_grid, highlighted_cell, io_vars, chk>>

\* reset(): the cells are set to raw_grid.
ClickReset ==
    /\ "reset" \notin disabled /\ Event
    /\ grid' = SetAll(raw_grid)
    /\ UNCHANGED <<stack, ret, ret_entry, grid0, written, calls, wpc, disabled,
                   raw_grid, highlighted_cell, io_vars, chk>>

\* clear(): the cells are set to 0 (the assignment to raw_grid makes a local).
ClickClear ==
    /\ "clear" \notin disabled /\ Event
    /\ grid' = [y \in Idx |-> [x \in Idx |-> 0]]
    /\ UNCHANGED <<stack, ret, ret_entry, grid0, written, calls, wpc, disabled,
                   raw_grid, highlighted_cell, io_vars, chk>>

\* handle_click: the clicked cell is highlighted.
ClickCell ==
    /\ Event
    /\ \E p \in ClickPoints : highlighted_cell' = cell_at(p[1], p[2])
    /\ UNCHANGED <<solver_vars, wpc, disabled, raw_grid, io_vars, chk>>

\* handle_key_press
KeyPress ==
    /\ Event
    /\ \E keysym \in KeySyms :
          IF highlighted_cell = NoCell THEN UNCHANGED <<grid, highlighted_cell>>
          ELSE LET hl_cell_x == highlighted_cell[1]
                   hl_cell_y == highlighted_cell[2]
               IN  CASE keysym = "Up" ->
                          /\ highlighted_cell' =
                                <<hl_cell_x, IF hl_cell_y > 0 THEN hl_cell_y - 1 ELSE hl_cell_y>>
                          /\ UNCHANGED grid
                     [] keysym = "Down" ->
                          /\ highlighted_cell' =
                                <<hl_cell_x, IF hl_cell_y < N - 1 THEN hl_cell_y + 1 ELSE hl_cell_y>>
                          /\ UNCHANGED grid
                     [] keysym = "Left" ->
                          /\ highlighted_cell' =
                                <<IF hl_cell_x > 0 THEN hl_cell_x - 1 ELSE hl_cell_x, hl_cell_y>>
                          /\ UNCHANGED grid
                     [] keysym = "Right" ->
                          /\ highlighted_cell' =
                                <<IF hl_cell_x < N - 1 THEN hl_cell_x + 1 ELSE hl_cell_x, hl_cell_y>>
                          /\ UNCHANGED grid
                     [] keysym \in {Str(n)[1] : n \in 0 .. N} ->
                          /\ grid' = SetCell(grid, hl_cell_y, hl_cell_x, IntOfChar(keysym))
                          /\ highlighted_cell' = get_next_cell(hl_cell_x, hl_cell_y, N)
                     [] keysym = "space" ->
                          /\ grid' = SetCell(grid, hl_cell_y, hl_cell_x, 0)
                          /\ highlighted_cell' = get_next_cell(hl_cell_x, hl_cell_y, N)
                     [] keysym = "BackSpace" ->
                          /\ grid' = SetCell(grid, hl_cell_y, hl_cell_x, 0)
                          /\ highlighted_cell' = get_prev_cell(hl_cell_x, hl_cell_y, N)
                     [] OTHER -> UNCHANGED <<grid, highlighted_cell>>
    /\ UNCHANGED <<stack, ret, ret_entry, grid0, written, calls, wpc, disabled,
                   raw_grid, io_vars, chk>>

\* start(), first loop: the worker disables the buttons.
WorkerDisable(t) ==
    /\ wpc[t] = "start"
    /\ disabled' = Buttons
    /\ wpc' = [wpc EXCEPT ![t] = "check"]
    /\ UNCHANGED <<solver_vars, raw_grid, highlighted_cell, events, io_vars, chk>>

\* start(): is_valid_puzzle(grid) is false, the message box is next.
WorkerInvalid(t) ==
    /\ wpc[t] = "check" /\ ~is_valid_puzzle(grid)
    /\ wpc' = [wpc EXCEPT ![t] = "error"]
    /\ UNCHANGED <<solver_vars, disabled, raw_grid, highlighted_cell, events, io_vars, chk>>

\* start(): is_valid_puzzle(grid) is true, solve(grid) is called.
WorkerCallSolve(t) ==
    /\ wpc[t] = "check" /\ is_valid_puzzle(grid)
    /\ wpc' = [wpc EXCEPT ![t] = "solve"]
    /\ stack' = [stack EXCEPT ![t] = <<NewFrame(0, 0, grid)>>]
    /\ ret' = [ret EXCEPT ![t] = "none"]
    /\ ret_entry' = [ret_entry EXCEPT ![t] = NoGrid]
    /\ grid0' = [grid0 EXCEPT ![t] = grid]
    /\ written' = [written EXCEPT ![t] = {}]
    /\ UNCHANGED <<grid, calls, disabled, raw_grid, highlighted_cell, events, io_vars, chk>>

\* start(): solve returned True.
WorkerSolved(t) ==
    /\ wpc[t] = "solve" /\ ~Running(t) /\ ret[t] = "True"
    /\ wpc' = [wpc EXCEPT ![t] = "enable"]
    /\ UNCHANGED <<solver_vars, disabled, raw_grid, highlighted_cell, events, io_vars, chk>>

\* start(): solve returned False, the message box is next.
WorkerUnsolved(t) ==
    /\ wpc[t] = "solve" /\ ~Running(t) /\ ret[t] = "False"
    /\ wpc' = [wpc EXCEPT ![t] = "error"]
    /\ UNCHANGED <<solver_vars, disabled, raw_grid, highlighted_cell, events, io_vars, chk>>

\* start(): messagebox.showerror has been shown and closed.
WorkerShowError(t) ==
    /\ wpc[t] = "error"
    /\ wpc' = [wpc EXCEPT ![t] = "enable"]
    /\ UNCHANGED <<solver_vars, disabled, raw_grid, highlighted_cell, events, io_vars, chk>>

\* start(), last loop: the worker enables the buttons and ends.
WorkerEnable(t) ==
    /\ wpc[t] = "enable"
    /\ disabled' = {}
    /\ wpc' = [wpc EXCEPT ![t] = "idle"]
    /\ ret' = [ret EXCEPT ![t] = "none"]
    /\ UNCHANGED <<grid, stack, ret_entry, grid0, written, calls, raw_grid,
                   highlighted_cell, events, io_vars, chk>>

WorkerStep(t) ==
    \/ WorkerDisable(t)
    \/ WorkerInvalid(t)
    \/ WorkerCallSolve(t)
    \/ SolveFind(t)
    \/ SolveFull(t)
    \/ SolveAssign(t)
    \/ SolveBacktrack(t)
    \/ SolveSuccess(t)
    \/ SolveNextDigit(t)
    \/ WorkerSolved(t)
    \/ WorkerUnsolved(t)
    \/ WorkerShowError(t)
    \/ WorkerEnable(t)

GuiNext ==
    \/ ClickLoad
    \/ ClickStore
    \/ ClickStart
    \/ ClickReset
    \/ ClickClear
    \/ ClickCell
    \/ KeyPress
    \/ \E t \in Threads : WorkerStep(t)

GuiSpec == GuiInit /\ [][GuiNext]_vars

\* A Start click has been accepted for worker t and the solve it launches has
\* not returned yet.
InFlight(t) == wpc[t] \in {"start", "check"} \/ (wpc[t] = "solve" /\ Running(t))

\* C10: while a Start click has been accepted and its solve has not returned,
\* no handler of a UI event changes a grid cell and no other worker enters
\* solve on the grid.
C10_SingleSolver ==
    [][\A t \in Threads :
          InFlight(t) =>
              /\ ~(events' # events /\ grid' # grid)
              /\ \A u \in Threads \ {t} : ~(Len(stack[u]) = 0 /\ Len(stack'[u]) > 0)]_vars

(***************************************************************************)
(* StartSpec: start() of sudosolver.py run by one worker from its first    *)
(* statement to its last, on any grid of InitGrids, with no further UI     *)
(* event: the validity test, then solve.                                   *)
(***************************************************************************)
StartInit ==
    /\ grid \in InitGrids
    /\ SolverIdle(grid)
    /\ wpc = [t \in Threads |-> IF t = 1 THEN "start" ELSE "idle"]
    /\ disabled = {}
    /\ raw_grid = dump_grid_values(grid)
    /\ highlighted_cell = NoCell
    /\ events = 1
    /\ IoIdle
    /\ chk = NoAnswers

StartNext == WorkerStep(1)

StartSpec == StartInit /\ [][StartNext]_vars

\* The worker's call of solve has been made (it may have returned since).
SolveCalled == wpc[1] \in {"solve", "enable"} /\ grid0[1] # NoGrid

\* C11: solve is called by start() only on a grid is_valid_puzzle accepts, and
\* from that call on, after every assignment and every undo and when solve
\* has returned, is_valid_puzzle(grid) is true; when solve has returned True
\* to start(), is_solved(grid) is true.
C11_ValidityInvariant ==
    SolveCalled =>
        /\ is_valid_puzzle(grid0[1])
        /\ is_valid_puzzle(grid)
        /\ (~Running(1) /\ ret[1] = "True") => is_solved(grid)

\* In start(), solve has backtracked (a nested call returned False, its cell
\* reset) with digits still held by the levels above.
C11_Witness ==
    /\ SolveCalled /\ Running(1) /\ ret[1] = "False"
    /\ Len(stack[1]) >= 2 /\ grid # grid0[1]

(***************************************************************************)
(* Claims about solve, under Spec.                                         *)
(***************************************************************************)
ReturnedTrue == ~Running(1) /\ ret[1] = "True"

ReturnedFalse == ~Running(1) /\ ret[1] = "False"

Returned == ReturnedTrue \/ ReturnedFalse

\* C1 as stated: whatever the input grid, when solve(grid) has returned True,
\* is_solved(grid) is true of the grid as solve left it.
C1_SoundAnyGrid == ReturnedTrue => is_solved(grid)

\* C1 amended: when the grid solve was called on had no digit twice in a row,
\* column or box (is_valid_puzzle) and solve has returned True, is_solved(grid)
\* is true of the grid as solve left it.
C1_SoundValidGrid ==
    (ReturnedTrue /\ is_valid_puzzle(grid0[1])) => is_solved(grid)

\* solve filled cells of a valid grid and returned True.
C1_Witness ==
    ReturnedTrue /\ is_valid_puzzle(grid0[1]) /\ written[1] # {} /\ grid # grid0[1]

\* C2: when a solve invocation, at the top level or nested, has returned False,
\* the grid equals the grid at that invocation's entry; and whenever a level is
\* about to try a digit, the peer set it computed once is the peer set of its
\* cell in the grid as it is now.
C2_BacktrackRestores ==
    /\ ret[1] = "False" => grid = ret_entry[1]
    /\ ReturnedFalse => grid = grid0[1]
    /\ (Running(1) /\ Top(1).pc = "loop") =>
            Top(1).peer_set = get_peers(grid, Top(1).y, Top(1).x)

\* A nested invocation has returned False after digits had been tried below it.
C2_Witness ==
    /\ ret[1] = "False" /\ Len(stack[1]) >= 2
    /\ Top(1).pc = "call" /\ Top(1).digit > 1

\* C3: when solve has returned and the grid it was called on has a solved
\* completion, it returned True; and when that completion is the only one, the
\* grid is now that completion.
C3_Complete ==
    Returned =>
        LET cs == Completions(grid0[1])
        IN  /\ cs # {} => ret[1] = "True"
            /\ Cardinality(cs) = 1 => grid \in cs

\* solve filled in the one completion of a grid that has exactly one.
C3_Witness ==
    /\ ReturnedTrue /\ Cardinality(Completions(grid0[1])) = 1
    /\ Cardinality(written[1]) >= 2

\* C6: solve never writes a cell that was non-empty at the top-level call; on a
\* grid without empty cell it returns True having written nothing; a second
\* solve on the result of a successful one changes nothing.
C6_NoWriteToFilled ==
    /\ \A y, x \in Idx :
          grid0[1][y][x] # EMPTY_CELL_VALUE =>
              (grid[y][x] = grid0[1][y][x] /\ <<y, x>> \notin written[1])
    /\ (\A y, x \in Idx : grid0[1][y][x] # EMPTY_CELL_VALUE) =>
          (written[1] = {} /\ grid = grid0[1] /\ ~ReturnedFalse)
    /\ calls > 1 => (grid = grid0[1] /\ written[1] = {} /\ ~ReturnedFalse)

\* solve has returned True on a grid that was solved when it was called.
C6_Witness == ReturnedTrue /\ is_solved(grid0[1]) /\ calls > 1

\* C9: every call of solve returns True or False (under FairSpec: solve keeps
\* running until it returns).
C9_Terminates == Running(1) ~> Returned

\* solve has returned False on a grid with a digit twice in a group.
C9_Witness == ReturnedFalse /\ ~is_valid_puzzle(grid0[1])

(***************************************************************************)
(* SparseSpec: solve (and a second call on its result) on the grids with   *)
(* the most empty cells, where the recursion is deepest and the            *)
(* completions are many: the empty grid with at most MaxGivens cells of    *)
(* its diagonals set to any value of 0 .. N, and the grids of Puzzles.     *)
(***************************************************************************)
MaxGivens == 1

\* The cells of the two diagonals: two to each row, column and box.
GivenCells == {c \in Idx \X Idx : c[1] = c[2] \/ c[1] + c[2] = N - 1}

SparseGrids == EditsOn({empty_grid(N)}, MaxGivens, GivenCells, 0 .. N) \cup Puzzles

SparseInit ==
    /\ grid \in SparseGrids
    /\ stack = [t \in Threads |-> IF t = 1 THEN <<NewFrame(0, 0, grid)>> ELSE <<>>]
    /\ ret = [t \in Threads |-> "none"]
    /\ ret_entry = [t \in Threads |-> grid]
    /\ grid0 = [t \in Threads |-> grid]
    /\ written = [t \in Threads |-> {}]
    /\ calls = 1
    /\ GuiIdle
    /\ IoIdle
    /\ chk = NoAnswers

SparseSpec == SparseInit /\ [][Next]_vars

\* The cells that were empty at the top-level call.
InitiallyEmpty == {c \in Idx \X Idx : IsEmptyCell(grid0[1], c)}

\* The levels that are in their recursive call.
RecursedLevels == {i \in 1 .. Len(stack[1]) : stack[1][i].pc = "call"}

\* C13: the number of nested recursive calls below the top-level call never
\* exceeds the number of cells that were empty at the top-level call, hence
\* never N * N; every level that has recursed holds its digit in a cell that
\* was empty at the top-level call, a cell further on (in row-major order) than
\* the cell of the level above, so that the cells are distinct; the level
\* below it (until it returns) was given that cell's position as its cursor;
\* the cursors never move back from one level to the next, and every cell
\* before the innermost cursor, hence before any level's cursor, is non-empty.
C13_DepthBound ==
    /\ Len(stack[1]) - 1 <= Cardinality(InitiallyEmpty)
    /\ Len(stack[1]) - 1 <= N * N
    /\ \A i \in RecursedLevels :
          LET f == stack[1][i]
          IN  /\ f.digit \in 1 .. N /\ grid[f.y][f.x] = f.digit
              /\ IsEmptyCell(grid0[1], <<f.y, f.x>>)
              /\ i > 1 => RowMajor(<<stack[1][i - 1].y, stack[1][i - 1].x>>) < RowMajor(<<f.y, f.x>>)
              /\ i < Len(stack[1]) =>
                    <<stack[1][i + 1].y0, stack[1][i + 1].x0>> = <<f.y, f.x>>
    /\ \A i \in 1 .. (Len(stack[1]) - 1) :
          /\ stack[1][i].pc = "call"
          /\ RowMajor(<<stack[1][i].y0, stack[1][i].x0>>)
                <= RowMajor(<<stack[1][i + 1].y0, stack[1][i + 1].x0>>)
    /\ Running(1) =>
          \A c \in Idx \X Idx :
              RowMajor(c) < RowMajor(<<Top(1).y0, Top(1).x0>>) => ~IsEmptyCell(grid, c)

\* On the empty grid every cell holds a level's digit: N * N recursive calls
\* are nested below the top-level call.
C13_Witness ==
    /\ Len(stack[1]) - 1 = N * N /\ Cardinality(InitiallyEmpty) = N * N
    /\ Cardinality(RecursedLevels) = N * N

\* The values of g in the cells of InitiallyEmpty read in row-major order come
\* before those of h in lexicographic order, or are the same.
LexLeq(g, h) ==
    \/ \A c \in InitiallyEmpty : g[c[1]][c[2]] = h[c[1]][c[2]]
    \/ \E c \in InitiallyEmpty :
          /\ g[c[1]][c[2]] < h[c[1]][c[2]]
          /\ \A b \in InitiallyEmpty :
                RowMajor(b) < RowMajor(c) => g[b[1]][b[2]] = h[b[1]][b[2]]

\* The steps of solve that can be taken next.
EnabledSteps ==
    {k \in 1 .. 6 :
        \/ k = 1 /\ ENABLED SolveFind(1)
        \/ k = 2 /\ ENABLED SolveFull(1)
        \/ k = 3 /\ ENABLED SolveAssign(1)
        \/ k = 4 /\ ENABLED SolveBacktrack(1)
        \/ k = 5 /\ ENABLED SolveSuccess(1)
        \/ k = 6 /\ ENABLED SolveNextDigit(1)}

\* C14: when solve has returned True on a grid that was valid at the call, the
\* grid is the solved completion of that grid whose values in the initially
\* empty cells, in row-major order, are lexicographically smallest; when it has
\* returned False the grid is the grid of the call; and while solve runs
\* exactly one step is possible, so that the result is fixed by the input.
C14_FirstSolution ==
    /\ (ReturnedTrue /\ is_valid_puzzle(grid0[1])) =>
          /\ grid \in Completions(grid0[1])
          /\ \A s \in Completions(grid0[1]) : LexLeq(grid, s)
    /\ ReturnedFalse => grid = grid0[1]
    /\ Running(1) => Cardinality(EnabledSteps) = 1

\* solve has returned True on a valid grid that has several completions, and
\* some cell holds a digit above one that its peers at the call allowed.
C14_Witness ==
    /\ ReturnedTrue /\ is_valid_puzzle(grid0[1])
    /\ Cardinality(Completions(grid0[1])) >= 2
    /\ \E c \in InitiallyEmpty :
          \E d \in 1 .. (grid[c[1]][c[2]] - 1) : d \notin get_peers(grid0[1], c[1], c[2])

====
